---- MODULE Spec2Model ----
(***************************************************************************)
(* A model of src/epub_rag_ingestor.py: the EPUBProcessor pipeline that    *)
(* lists a directory, extracts the text of every '.epub' file, splits it   *)
(* into chunks, embeds the chunks, builds one record per chunk and upserts *)
(* all records into the table epub_chunks in a single transaction.         *)
(*                                                                         *)
(* Text is modelled as a sequence of one-character strings, so that        *)
(* os.path.splitext, str.endswith, str.strip, the f-string that builds a   *)
(* chunk_id and the text splitter are computed character by character.     *)
(***************************************************************************)
EXTENDS Integers, Sequences, FiniteSets, TLC

\* ------------------------------------------------------------------ bounds

\* The longest directory listing os.listdir returns in the model.
MaxFiles == 2

\* The number of times the program (the __main__ block) is run one after
\* the other against the same database.
MaxRuns == 2

\* The longest text and the largest chunk_size the splitter is run on.
MaxTextLen == 5
MaxChunkSize == 4

\* ------------------------------------------------------------- characters

Whitespace == {" ", "\n"}

EpubExt == <<".", "e", "p", "u", "b">>

\* str.endswith(suffix)
EndsWith(s, suffix) ==
    /\ Len(s) >= Len(suffix)
    /\ SubSeq(s, Len(s) - Len(suffix) + 1, Len(s)) = suffix

\* str.rfind(c) + 1 for a single character c: the last position of c, 0 if none
RFind(s, c) ==
    IF \E k \in 1..Len(s) : s[k] = c
    THEN CHOOSE k \in 1..Len(s) : s[k] = c /\ \A j \in (k+1)..Len(s) : s[j] # c
    ELSE 0

\* os.path.splitext(name)[0] for a name without a directory separator: the
\* part before the last dot, unless only dots precede that dot (a leading
\* dot is not an extension separator), in which case the whole name.
splitext(p) ==
    LET dotIndex == RFind(p, ".")
    IN  IF dotIndex > 0 /\ \E k \in 1..(dotIndex - 1) : p[k] # "."
        THEN SubSeq(p, 1, dotIndex - 1)
        ELSE p

\* str.strip(): leading and trailing whitespace removed
RECURSIVE lstrip(_)
lstrip(s) ==
    IF s # <<>> /\ Head(s) \in Whitespace THEN lstrip(Tail(s)) ELSE s

RECURSIVE rstrip(_)
rstrip(s) ==
    IF s # <<>> /\ s[Len(s)] \in Whitespace
    THEN rstrip(SubSeq(s, 1, Len(s) - 1))
    ELSE s

strip(s) == rstrip(lstrip(s))

\* separator.join(parts)
RECURSIVE join(_, _)
join(separator, parts) ==
    IF parts = <<>> THEN <<>>
    ELSE IF Len(parts) = 1 THEN parts[1]
    ELSE parts[1] \o separator \o join(separator, Tail(parts))

\* str(i) for an integer i >= 0, as the f-string formats it
Digit(d) ==
    CASE d = 0 -> "0" [] d = 1 -> "1" [] d = 2 -> "2" [] d = 3 -> "3"
      [] d = 4 -> "4" [] d = 5 -> "5" [] d = 6 -> "6" [] d = 7 -> "7"
      [] d = 8 -> "8" [] d = 9 -> "9"

RECURSIVE str(_)
str(i) == IF i < 10 THEN <<Digit(i)>> ELSE str(i \div 10) \o <<Digit(i % 10)>>

\* f"{book_title}_chunk_{i}"
chunk_id_of(book_title, i) ==
    book_title \o <<"_", "c", "h", "u", "n", "k", "_">> \o str(i)

\* ------------------------------------------------------------ extraction

\* An EPUB file as ebooklib reads it: either unreadable (epub.read_epub
\* raises) or a sequence of items, each with a type and the text that
\* BeautifulSoup(...).get_text() returns for its content.
ITEM_DOCUMENT == "ITEM_DOCUMENT"
ITEM_IMAGE == "ITEM_IMAGE"

Item(type, text) == [type |-> type, text |-> text]

Unreadable == [readable |-> FALSE, items |-> <<>>]
Readable(items) == [readable |-> TRUE, items |-> items]

\* the chapters list without the test `if text.strip()`: blank texts stay
RECURSIVE chapters_of_unfiltered(_)
chapters_of_unfiltered(items) ==
    IF items = <<>> THEN <<>>
    ELSE LET item == Head(items)
         IN  IF item.type = ITEM_DOCUMENT
             THEN <<item.text>> \o chapters_of_unfiltered(Tail(items))
             ELSE chapters_of_unfiltered(Tail(items))

\* the chapters list of extract_text_from_epub: the text of every document
\* item whose text is not blank, in item order
RECURSIVE chapters_of(_)
chapters_of(items) ==
    IF items = <<>> THEN <<>>
    ELSE LET item == Head(items)
         IN  IF item.type = ITEM_DOCUMENT /\ strip(item.text) # <<>>
             THEN <<item.text>> \o chapters_of(Tail(items))
             ELSE chapters_of(Tail(items))

\* extract_text_from_epub: any exception is logged and "" is returned
extract_text_from_epub(book) ==
    IF ~book.readable THEN <<>>
    ELSE join(<<" ">>, chapters_of(book.items))

\* -------------------------------------------------------------- chunking
\* RecursiveCharacterTextSplitter(chunk_size, chunk_overlap, length_function
\* = len) as constructed in __init__, with the library's defaults:
\* separators ["\n\n", "\n", " ", ""], keep_separator = True,
\* strip_whitespace = True.

Separators == << <<"\n", "\n">>, <<"\n">>, <<" ">>, <<>> >>

\* The constructor of the splitter raises ValueError when chunk_overlap is
\* larger than chunk_size.  Releases of the library that also validate the
\* signs raise for chunk_size <= 0 and for chunk_overlap < 0 as well; the
\* source pins no release, so the model keeps both (validates_sign).
SplitterRejects(chunk_size, chunk_overlap, validates_sign) ==
    \/ chunk_overlap > chunk_size
    \/ validates_sign /\ (chunk_size <= 0 \/ chunk_overlap < 0)

\* re.search(re.escape(sep), text): the first position of sep in text, 0 if none
FindSep(text, sep) ==
    LET hits == {k \in 1..(Len(text) - Len(sep) + 1) :
                    SubSeq(text, k, k + Len(sep) - 1) = sep}
    IN  IF hits = {} THEN 0 ELSE CHOOSE k \in hits : \A j \in hits : k <= j

\* the pieces of text between the occurrences of a non-empty sep
RECURSIVE RawSplit(_, _)
RawSplit(text, sep) ==
    LET k == FindSep(text, sep)
    IN  IF k = 0 THEN <<text>>
        ELSE <<SubSeq(text, 1, k - 1)>>
               \o RawSplit(SubSeq(text, k + Len(sep), Len(text)), sep)

RECURSIVE DropEmpty(_)
DropEmpty(parts) ==
    IF parts = <<>> THEN <<>>
    ELSE IF Head(parts) = <<>> THEN DropEmpty(Tail(parts))
    ELSE <<Head(parts)>> \o DropEmpty(Tail(parts))

\* keep_separator = False: the separators are dropped from the pieces
split_text_with_regex_dropping(text, sep) ==
    IF sep = <<>> THEN [k \in 1..Len(text) |-> <<text[k]>>]
    ELSE DropEmpty(RawSplit(text, sep))

\* _split_text_with_regex(text, separator, keep_separator = True): every
\* separator stays at the front of the piece that follows it; the empty
\* separator splits into characters; empty pieces are dropped.
split_text_with_regex(text, sep) ==
    IF sep = <<>> THEN [k \in 1..Len(text) |-> <<text[k]>>]
    ELSE LET raw == RawSplit(text, sep)
         IN  DropEmpty(<<raw[1]>> \o [k \in 1..(Len(raw) - 1) |-> sep \o raw[k + 1]])

\* TextSplitter._join_docs: the joined text stripped, or nothing when blank
join_docs(docs, separator) ==
    LET text == strip(join(separator, docs))
    IN  IF text = <<>> THEN <<>> ELSE <<text>>

\* the while loop of _merge_splits that drops pieces from the front of
\* current_doc; popping from an empty current_doc is an IndexError
RECURSIVE PopFront(_, _, _, _, _, _)
PopFront(current_doc, total, len, separator_len, chunk_size, chunk_overlap) ==
    IF \/ total > chunk_overlap
       \/ /\ total + len + (IF Len(current_doc) > 0 THEN separator_len ELSE 0)
                > chunk_size
          /\ total > 0
    THEN IF current_doc = <<>>
         THEN [err |-> TRUE, current_doc |-> <<>>, total |-> total]
         ELSE PopFront(Tail(current_doc),
                       total - (Len(current_doc[1])
                                + (IF Len(current_doc) > 1 THEN separator_len ELSE 0)),
                       len, separator_len, chunk_size, chunk_overlap)
    ELSE [err |-> FALSE, current_doc |-> current_doc, total |-> total]

\* the for loop of _merge_splits from piece k on
RECURSIVE MergeFrom(_, _, _, _, _, _, _, _)
MergeFrom(splits, k, docs, current_doc, total, separator, chunk_size, chunk_overlap) ==
    IF k > Len(splits)
    THEN [err |-> FALSE, chunks |-> docs \o join_docs(current_doc, separator)]
    ELSE LET d == splits[k]
             len == Len(d)
             separator_len == Len(separator)
             over == total + len
                       + (IF Len(current_doc) > 0 THEN separator_len ELSE 0)
                       > chunk_size
             flush == over /\ Len(current_doc) > 0
             popped == IF flush
                       THEN PopFront(current_doc, total, len, separator_len,
                                     chunk_size, chunk_overlap)
                       ELSE [err |-> FALSE, current_doc |-> current_doc,
                             total |-> total]
             docs2 == IF flush THEN docs \o join_docs(current_doc, separator)
                      ELSE docs
             cur2 == Append(popped.current_doc, d)
             total2 == popped.total + len
                         + (IF Len(cur2) > 1 THEN separator_len ELSE 0)
         IN  IF popped.err THEN [err |-> TRUE, chunks |-> <<>>]
             ELSE MergeFrom(splits, k + 1, docs2, cur2, total2, separator,
                            chunk_size, chunk_overlap)

\* the size test of _merge_splits with >= in place of >
merge_splits_off_by_one(splits, separator, chunk_size, chunk_overlap) ==
    MergeFrom(splits, 1, <<>>, <<>>, 0, separator, chunk_size - 1, chunk_overlap)

\* TextSplitter._merge_splits
merge_splits(splits, separator, chunk_size, chunk_overlap) ==
    MergeFrom(splits, 1, <<>>, <<>>, 0, separator, chunk_size, chunk_overlap)

\* the separator _split_text picks: the first of the list that is empty or
\* occurs in the text (the last one when none does), with the separators
\* left for the recursion
PickSeparator(text, separators) ==
    LET hits == {i \in 1..Len(separators) :
                    separators[i] = <<>> \/ FindSep(text, separators[i]) > 0}
    IN  IF hits = {}
        THEN [separator |-> separators[Len(separators)], rest |-> <<>>]
        ELSE LET i == CHOOSE i \in hits : \A j \in hits : i <= j
             IN  IF separators[i] = <<>>
                 THEN [separator |-> <<>>, rest |-> <<>>]
                 ELSE [separator |-> separators[i],
                       rest |-> SubSeq(separators, i + 1, Len(separators))]

\* RecursiveCharacterTextSplitter._split_text: pieces shorter than
\* chunk_size are merged, a longer piece is split again with the remaining
\* separators, or emitted as it is when none remains.  The merge separator
\* is "" because keep_separator is True.
RECURSIVE split_text_rec(_, _, _, _)
RECURSIVE SplitLoop(_, _, _, _, _, _, _)
SplitLoop(splits, k, final_chunks, good_splits, new_separators, chunk_size, chunk_overlap) ==
    LET merged == IF good_splits = <<>> THEN [err |-> FALSE, chunks |-> <<>>]
                  ELSE merge_splits(good_splits, <<>>, chunk_size, chunk_overlap)
    IN  IF k > Len(splits)
        THEN [err |-> merged.err, chunks |-> final_chunks \o merged.chunks]
        ELSE LET s == splits[k]
             IN  IF Len(s) < chunk_size
                 THEN SplitLoop(splits, k + 1, final_chunks, Append(good_splits, s),
                                new_separators, chunk_size, chunk_overlap)
                 ELSE LET other == IF new_separators = <<>>
                                   THEN [err |-> FALSE, chunks |-> <<s>>]
                                   ELSE split_text_rec(s, new_separators,
                                                       chunk_size, chunk_overlap)
                      IN  IF merged.err \/ other.err
                          THEN [err |-> TRUE, chunks |-> <<>>]
                          ELSE SplitLoop(splits, k + 1,
                                         final_chunks \o merged.chunks \o other.chunks,
                                         <<>>, new_separators, chunk_size, chunk_overlap)

split_text_rec(text, separators, chunk_size, chunk_overlap) ==
    LET pick == PickSeparator(text, separators)
    IN  SplitLoop(split_text_with_regex(text, pick.separator), 1, <<>>, <<>>,
                  pick.rest, chunk_size, chunk_overlap)

\* self.text_splitter.split_text(full_text): [err |-> an exception was
\* raised, chunks |-> the list returned]
split_text(text, chunk_size, chunk_overlap) ==
    split_text_rec(text, Separators, chunk_size, chunk_overlap)

\* ------------------------------------------------------------- embedding
\* SentenceTransformer.encode is a black box to the program: a function
\* from a list of texts to a list of vectors.  The model gives every chunk
\* a short vector computed from its characters (its length and the sum of
\* its character codes), and lets the embedder misbehave for one file of
\* the directory: raise, or return one vector fewer than it was given.

CharCode(c) ==
    CASE c = "a" -> 1 [] c = "b" -> 2 [] c = "c" -> 3 [] c = "d" -> 4
      [] OTHER -> 0

RECURSIVE SumCodes(_)
SumCodes(text) ==
    IF text = <<>> THEN 0 ELSE CharCode(Head(text)) + SumCodes(Tail(text))

Embed(chunk) == <<Len(chunk), SumCodes(chunk)>>

encode(chunks, fault) ==
    CASE fault = "raise" -> [err |-> TRUE, vectors |-> <<>>]
      [] fault = "short" ->
            [err |-> FALSE,
             vectors |-> [i \in 1..(Len(chunks) - 1) |-> Embed(chunks[i])]]
      [] OTHER -> [err |-> FALSE,
                   vectors |-> [i \in 1..Len(chunks) |-> Embed(chunks[i])]]

\* --------------------------------------------------------------- records

Min(a, b) == IF a <= b THEN a ELSE b

\* enumerate(..., start=1): the chunk numbers begin at 1
record_of_from_one(book_title, i, chunk, embedding) ==
    [chunk_id |-> chunk_id_of(book_title, i + 1),
     content |-> chunk,
     book_title |-> book_title,
     chunk_num |-> i + 1,
     embedding |-> embedding]

\* the record built for position i (0-based) of enumerate(zip(chunks,
\* embeddings)); embedding.tolist() keeps the vector's numbers
record_of(book_title, i, chunk, embedding) ==
    [chunk_id |-> chunk_id_of(book_title, i),
     content |-> chunk,
     book_title |-> book_title,
     chunk_num |-> i,
     embedding |-> embedding]

\* the records one file appends to all_records: zip stops at the shorter
\* of its two arguments
records_of(book_title, chunks, embeddings) ==
    [k \in 1..Min(Len(chunks), Len(embeddings)) |->
        record_of(book_title, k - 1, chunks[k], embeddings[k])]

\* ----------------------------------------------------------------- store
\* The table epub_chunks is a sequence of rows, in the order they were
\* inserted; a row has the fields of a record.

\* ON CONFLICT (chunk_id) DO NOTHING: the row already there is kept
upsert_do_nothing(rows, rec) ==
    IF \E k \in DOMAIN rows : rows[k].chunk_id = rec.chunk_id
    THEN rows
    ELSE Append(rows, rec)

\* a plain INSERT into a table without the primary key
upsert_insert_only(rows, rec) == Append(rows, rec)

\* INSERT ... ON CONFLICT (chunk_id) DO UPDATE SET content, book_title,
\* chunk_num, embedding = EXCLUDED.*
upsert(rows, rec) ==
    IF \E k \in DOMAIN rows : rows[k].chunk_id = rec.chunk_id
    THEN [k \in DOMAIN rows |->
            IF rows[k].chunk_id = rec.chunk_id
            THEN [rows[k] EXCEPT !.content = rec.content,
                                 !.book_title = rec.book_title,
                                 !.chunk_num = rec.chunk_num,
                                 !.embedding = rec.embedding]
            ELSE rows[k]]
    ELSE Append(rows, rec)

\* ----------------------------------------------------------------- state

VARIABLES
    chunk_size,      \* self.chunk_size
    chunk_overlap,   \* self.chunk_overlap
    validates_sign,  \* the installed splitter library validates the signs
    directory,       \* os.listdir(self.input_dir), in the order returned
    books,           \* books[k]: the content of the file directory[k]
    encode_fault,    \* [at |-> position in directory or 0, kind |-> fault]
    store,           \* the committed rows of epub_chunks
    table_exists,    \* the table epub_chunks has been created
    txn,             \* the rows as the open transaction of self.conn sees them
    conn,            \* self.conn: "none", "open" or "closed"
    pc,              \* where the program is
    error,           \* the exception that ended the run, or "none"
    epub_files,      \* epub_files of process_directory
    idx,             \* the position in epub_files of the file processed next
    all_records,     \* all_records of process_directory
    sent,            \* how many statements of the batch have been executed
    runs,            \* how many times the program has been started
    prev             \* the previous run: how it ended and what it left

vars == <<chunk_size, chunk_overlap, validates_sign, directory, books,
          encode_fault, store, table_exists, txn, conn, pc, error,
          epub_files, idx, all_records, sent, runs, prev>>

env == <<chunk_size, chunk_overlap, validates_sign, directory, encode_fault>>
loop_vars == <<epub_files, idx, all_records>>

\* ---------------------------------------------------------------- inputs

\* The entries a directory may hold, in the order os.listdir returns them.
\* ".epub" and ".epub.epub" are names that splitext treats differently from
\* "a.epub"; "a.txt" is not an EPUB file.
FileNames ==
    << <<".", "e", "p", "u", "b", ".", "e", "p", "u", "b">>,
       <<"a", ".", "t", "x", "t">>,
       <<".", "e", "p", "u", "b">>,
       <<"a", ".", "e", "p", "u", "b">> >>

\* the entries of FileNames at the positions in S, in order
RECURSIVE Select(_, _)
Select(S, k) ==
    IF k > Len(FileNames) THEN <<>>
    ELSE IF k \in S THEN <<FileNames[k]>> \o Select(S, k + 1)
    ELSE Select(S, k + 1)

Listings ==
    {Select(S, 1) : S \in {T \in SUBSET DOMAIN FileNames : Cardinality(T) <= MaxFiles}}

BookCorrupt == Unreadable
BookBlank ==
    Readable(<< Item(ITEM_DOCUMENT, <<" ">>), Item(ITEM_IMAGE, <<"a">>) >>)
BookOne == Readable(<< Item(ITEM_DOCUMENT, <<"a", "b", " ", "c", "d">>) >>)
BookTwo ==
    Readable(<< Item(ITEM_DOCUMENT, <<"a", "b">>), Item(ITEM_IMAGE, <<"d">>),
                Item(ITEM_DOCUMENT, <<"c">>) >>)

Books == {BookCorrupt, BookBlank, BookOne, BookTwo}

\* what an edit between two runs makes of a file
Edited(book) ==
    CASE book = BookOne -> BookTwo
      [] book = BookTwo -> BookOne
      [] book = BookCorrupt -> BookOne
      [] OTHER -> BookTwo

Faults == {"raise", "short"}
NoFault == [at |-> 0, kind |-> "none"]

\* chunk_size and chunk_overlap default to 512 and 64 (line 18)
DefaultChunkSize == 512
DefaultChunkOverlap == 64

Config(size, overlap) == [chunk_size |-> size, chunk_overlap |-> overlap]

\* the configuration the whole variety of directories is run under
SmallConfig == Config(3, 1)

\* configurations a caller of __init__ may pass, valid and not
Configs ==
    { Config(DefaultChunkSize, DefaultChunkOverlap), SmallConfig,
      Config(2, 2), Config(0, 0), Config(2, 3), Config(3, -1), Config(-1, -2) }

\* the file of the directory with the given name
PositionOf(name) == CHOOSE k \in DOMAIN directory : directory[k] = name
BookOf(name) == books[PositionOf(name)]
FaultOf(name) ==
    IF encode_fault.at = PositionOf(name) THEN encode_fault.kind ELSE "none"

\* ------------------------------------------------------------------ Init

NoPrev ==
    [ok |-> FALSE, records |-> <<>>, store |-> <<>>, books |-> <<>>,
     config |-> Config(DefaultChunkSize, DefaultChunkOverlap)]

InitProgram ==
    /\ store = <<>>
    /\ table_exists = FALSE
    /\ txn = <<>>
    /\ conn = "none"
    /\ pc = "init"
    /\ error = "none"
    /\ epub_files = <<>>
    /\ idx = 0
    /\ all_records = <<>>
    /\ sent = 0
    /\ runs = 1
    /\ prev = NoPrev

\* every directory, under the small configuration
InitDirectories ==
    /\ chunk_size = SmallConfig.chunk_size
    /\ chunk_overlap = SmallConfig.chunk_overlap
    /\ validates_sign = FALSE
    /\ directory \in Listings
    /\ books \in [DOMAIN directory -> Books]
    /\ encode_fault \in
         {NoFault} \cup [at : DOMAIN directory, kind : Faults]

\* every configuration, over a directory of one readable book
InitConfigs ==
    /\ (validates_sign = TRUE \/ validates_sign = FALSE)
    /\ \E c \in Configs :
          /\ chunk_size = c.chunk_size
          /\ chunk_overlap = c.chunk_overlap
    /\ directory = <<FileNames[4]>>
    /\ books \in [DOMAIN directory -> {BookOne, BookTwo}]
    /\ encode_fault = NoFault

Init == (InitConfigs \/ InitDirectories) /\ InitProgram

\* ----------------------------------------------------------- __init__

\* the exception propagates to the except clause of __main__
Raise(e) ==
    /\ pc' = "failed"
    /\ error' = e

\* lines 26-37: the fields are set and the text splitter is constructed;
\* its constructor raises for a configuration it rejects
NewSplitter ==
    /\ pc = "init"
    /\ IF SplitterRejects(chunk_size, chunk_overlap, validates_sign)
       THEN Raise("InvalidConfiguration")
       ELSE pc' = "splitter" /\ error' = error
    /\ UNCHANGED <<env, books, store, table_exists, txn, conn, loop_vars,
                   sent, runs, prev>>

\* _connect_to_db succeeds: self.conn is an open connection
ConnectToDb ==
    /\ pc = "splitter"
    /\ conn' = "open"
    /\ txn' = store
    /\ pc' = "connected"
    /\ UNCHANGED <<env, books, store, table_exists, error, loop_vars, sent,
                   runs, prev>>

\* psycopg2.connect raises: logged and raised again, self.conn is never set
ConnectFails ==
    /\ pc = "splitter"
    /\ Raise("ConnectFailure")
    /\ UNCHANGED <<env, books, store, table_exists, txn, conn, loop_vars,
                   sent, runs, prev>>

\* DROP TABLE and CREATE TABLE in place of CREATE TABLE IF NOT EXISTS
SetupDatabaseRecreates ==
    /\ pc = "connected"
    /\ table_exists' = TRUE
    /\ store' = <<>>
    /\ txn' = <<>>
    /\ pc' = "ready"
    /\ UNCHANGED <<env, books, conn, error, loop_vars, sent, runs, prev>>

\* _setup_database succeeds: CREATE EXTENSION / CREATE TABLE IF NOT EXISTS,
\* then commit
SetupDatabase ==
    /\ pc = "connected"
    /\ table_exists' = TRUE
    /\ pc' = "ready"
    /\ UNCHANGED <<env, books, store, txn, conn, error, loop_vars, sent,
                   runs, prev>>

\* a statement of _setup_database raises: rollback, then raised again
SetupFails ==
    /\ pc = "connected"
    /\ txn' = store
    /\ Raise("SchemaError")
    /\ UNCHANGED <<env, books, store, table_exists, conn, loop_vars, sent,
                   runs, prev>>

\* -------------------------------------------------- process_directory

\* f.endswith('.epub')
IsEpub(f) == EndsWith(f, EpubExt)

\* [f for f in os.listdir(self.input_dir) if f.endswith('.epub')]
RECURSIVE epub_files_of(_)
epub_files_of(listing) ==
    IF listing = <<>> THEN <<>>
    ELSE IF IsEpub(Head(listing))
         THEN <<Head(listing)>> \o epub_files_of(Tail(listing))
         ELSE epub_files_of(Tail(listing))

\* lines 104-105
ListDirectory ==
    /\ pc = "ready"
    /\ epub_files' = epub_files_of(directory)
    /\ all_records' = <<>>
    /\ idx' = 1
    /\ pc' = "loop"
    /\ UNCHANGED <<env, books, store, table_exists, txn, conn, error, sent,
                   runs, prev>>

\* the file the loop is at, and what lines 109-120 compute for it
InLoop == pc = "loop" /\ idx <= Len(epub_files)
epub_file == epub_files[idx]
book_title == splitext(epub_file)
full_text == extract_text_from_epub(BookOf(epub_file))
chunks == split_text(full_text, chunk_size, chunk_overlap)
embeddings == encode(chunks.chunks, FaultOf(epub_file))

\* extract_text_from_epub without its try/except: an unreadable file ends
\* the run
SkipFileRaises ==
    /\ InLoop
    /\ full_text = <<>>
    /\ IF BookOf(epub_file).readable
       THEN idx' = idx + 1 /\ pc' = pc /\ error' = error
       ELSE idx' = idx /\ Raise("ExtractionFailure")
    /\ UNCHANGED <<env, books, store, table_exists, txn, conn,
                   epub_files, all_records, sent, runs, prev>>

\* lines 112-114: nothing was extracted (the file is unreadable or has no
\* text): continue with the next file
SkipFile ==
    /\ InLoop
    /\ full_text = <<>>
    /\ idx' = idx + 1
    /\ UNCHANGED <<env, books, store, table_exists, txn, conn, pc, error,
                   epub_files, all_records, sent, runs, prev>>

\* line 117 raises: nothing in process_directory catches it
SplitRaises ==
    /\ InLoop
    /\ full_text # <<>>
    /\ chunks.err
    /\ Raise("ChunkingError")
    /\ UNCHANGED <<env, books, store, table_exists, txn, conn, loop_vars,
                   sent, runs, prev>>

\* line 120 raises: nothing in process_directory catches it
EncodeRaises ==
    /\ InLoop
    /\ full_text # <<>>
    /\ ~chunks.err
    /\ embeddings.err
    /\ Raise("EmbeddingFailure")
    /\ UNCHANGED <<env, books, store, table_exists, txn, conn, loop_vars,
                   sent, runs, prev>>

\* the records of a file are inserted and committed as soon as they are built
BuildRecordsFlushing ==
    /\ InLoop
    /\ full_text # <<>>
    /\ ~chunks.err
    /\ ~embeddings.err
    /\ all_records' =
         all_records \o records_of(book_title, chunks.chunks, embeddings.vectors)
    /\ store' =
         store \o records_of(book_title, chunks.chunks, embeddings.vectors)
    /\ txn' = store'
    /\ idx' = idx + 1
    /\ UNCHANGED <<env, books, table_exists, conn, pc, error, epub_files,
                   sent, runs, prev>>

\* lines 116-131: the file's records are appended to all_records
BuildRecords ==
    /\ InLoop
    /\ full_text # <<>>
    /\ ~chunks.err
    /\ ~embeddings.err
    /\ all_records' =
         all_records \o records_of(book_title, chunks.chunks, embeddings.vectors)
    /\ idx' = idx + 1
    /\ UNCHANGED <<env, books, store, table_exists, txn, conn, pc, error,
                   epub_files, sent, runs, prev>>

\* ---------------------------------------------------- _save_to_postgres
\* execute_batch sends the statements of the batch in pages of page_size;
\* the server executes the statements of a page one after the other inside
\* the transaction of self.conn, so the model executes them one by one.

\* the table is emptied before the batch is written
EnterSaveTruncating ==
    /\ pc = "loop"
    /\ idx > Len(epub_files)
    /\ pc' = "save"
    /\ sent' = 0
    /\ txn' = <<>>
    /\ UNCHANGED <<env, books, store, table_exists, conn, error, loop_vars,
                   runs, prev>>

\* line 134: the loop is over, _save_to_postgres(all_records) is entered
EnterSave ==
    /\ pc = "loop"
    /\ idx > Len(epub_files)
    /\ pc' = "save"
    /\ sent' = 0
    /\ UNCHANGED <<env, books, store, table_exists, txn, conn, error,
                   loop_vars, runs, prev>>

\* the next statement of the batch is executed in the transaction
ExecuteStatement ==
    /\ pc = "save"
    /\ sent < Len(all_records)
    /\ txn' = upsert(txn, all_records[sent + 1])
    /\ sent' = sent + 1
    /\ UNCHANGED <<env, books, store, table_exists, conn, pc, error,
                   loop_vars, runs, prev>>

\* the except clause commits instead of rolling back
rolled_back_commits == txn

\* what self.conn.rollback() leaves as the rows of the table
rolled_back == store

\* what self.conn.commit() leaves as the rows of the table
committed == txn

\* lines 169-172: a statement, or the commit, raises: rollback, then the
\* exception is raised again
SaveFails ==
    /\ pc = "save"
    /\ store' = rolled_back
    /\ txn' = store'
    /\ Raise("PersistenceFailure")
    /\ UNCHANGED <<env, books, table_exists, conn, loop_vars, sent, runs, prev>>

\* lines 167-168 and 135-136: the batch is committed and process_directory
\* returns len(all_records)
CommitAndReturn ==
    /\ pc = "save"
    /\ sent = Len(all_records)
    /\ store' = committed
    /\ txn' = store'
    /\ pc' = "returned"
    /\ UNCHANGED <<env, books, table_exists, conn, error, loop_vars, sent,
                   runs, prev>>

\* line 136: what process_directory returns, as the tuple of the values
\* returned (a single number)
returned_value == <<Len(all_records)>>

\* ------------------------------------------------------ end of the run

\* the run is over: __main__ has printed the count or the error
Exited == pc \in {"returned", "failed"}

\* __del__, whenever the interpreter finalizes the processor (if it does):
\* an open connection is closed
Finalize ==
    /\ Exited
    /\ conn = "open"
    /\ conn' = "closed"
    /\ txn' = store
    /\ UNCHANGED <<env, books, store, table_exists, pc, error, loop_vars,
                   sent, runs, prev>>

\* The program is started again on the same directory and database, after
\* the files of the directory were possibly edited (at most one of them),
\* or with the default chunk_size and chunk_overlap in place of the ones
\* of the run before.  The process of the previous run is gone, and its
\* connection with it.
Edits ==
    {books} \cup {[books EXCEPT ![k] = Edited(books[k])] : k \in DOMAIN books}

Restarts ==
    {[books |-> b, config |-> Config(chunk_size, chunk_overlap)] : b \in Edits}
    \cup {[books |-> books,
            config |-> Config(DefaultChunkSize, DefaultChunkOverlap)]}

StartRun ==
    /\ Exited
    /\ runs < MaxRuns
    /\ runs' = runs + 1
    /\ \E restart \in Restarts :
          /\ books' = restart.books
          /\ chunk_size' = restart.config.chunk_size
          /\ chunk_overlap' = restart.config.chunk_overlap
    /\ prev' = [ok |-> pc = "returned", records |-> all_records,
                store |-> store, books |-> books,
                config |-> Config(chunk_size, chunk_overlap)]
    /\ pc' = "init"
    /\ error' = "none"
    /\ conn' = "none"
    /\ txn' = store
    /\ epub_files' = <<>>
    /\ idx' = 0
    /\ all_records' = <<>>
    /\ sent' = 0
    /\ UNCHANGED <<validates_sign, directory, encode_fault, store,
                   table_exists>>

Next ==
    \/ NewSplitter
    \/ ConnectToDb
    \/ ConnectFails
    \/ SetupDatabase
    \/ SetupFails
    \/ ListDirectory
    \/ SkipFile
    \/ SplitRaises
    \/ EncodeRaises
    \/ BuildRecords
    \/ EnterSave
    \/ ExecuteStatement
    \/ SaveFails
    \/ CommitAndReturn
    \/ Finalize
    \/ StartRun

Spec == Init /\ [][Next]_vars

\* ------------------------------------------------------- the splitter
\* The same program run once over a directory of one file whose single
\* document item holds an arbitrary short text, under every valid
\* configuration up to MaxChunkSize, with a database and an embedder that
\* do not fail: what the loop appends for the file is what split_text
\* returns for the text.

Alphabet == {"a", "b", " ", "\n"}

Texts == UNION {[1..n -> Alphabet] : n \in 0..MaxTextLen}

InitSplitter ==
    /\ chunk_size \in 1..MaxChunkSize
    /\ chunk_overlap \in 0..(chunk_size - 1)
    /\ validates_sign = TRUE
    /\ directory = <<FileNames[4]>>
    /\ \E text \in Texts :
          books = << Readable(<< Item(ITEM_DOCUMENT, text) >>) >>
    /\ encode_fault = NoFault
    /\ InitProgram

NextSplitter ==
    \/ NewSplitter
    \/ ConnectToDb
    \/ SetupDatabase
    \/ ListDirectory
    \/ SkipFile
    \/ BuildRecords

SpecSplitter == InitSplitter /\ [][NextSplitter]_vars

\* ================================================================ claims

ChunkIds(records) == {records[k].chunk_id : k \in DOMAIN records}

RowsWith(rows, id) == {k \in DOMAIN rows : rows[k].chunk_id = id}

\* the last record of a batch with the given chunk_id
LastWith(records, id) ==
    records[CHOOSE k \in RowsWith(records, id) :
                \A j \in RowsWith(records, id) : j <= k]

\* this run and the one before it both committed their batch
TwoCommits == pc = "returned" /\ prev.ok

\* C1 (replace-on-conflict): after two successive successful calls of
\* _save_to_postgres, every chunk_id carried by both batches has exactly one
\* row in the store, and its content, book_title, chunk_num and embedding
\* are those of the second call's record.
C1_ReplaceOnConflict ==
    TwoCommits =>
        \A id \in ChunkIds(prev.records) \cap ChunkIds(all_records) :
            /\ Cardinality(RowsWith(store, id)) = 1
            /\ \A k \in RowsWith(store, id) :
                  LET second == LastWith(all_records, id)
                  IN  /\ store[k].content = second.content
                      /\ store[k].book_title = second.book_title
                      /\ store[k].chunk_num = second.chunk_num
                      /\ store[k].embedding = second.embedding

\* the two calls carried a record with the same chunk_id and different content
C1_Witness ==
    /\ TwoCommits
    /\ \E i \in DOMAIN prev.records, j \in DOMAIN all_records :
          /\ prev.records[i].chunk_id = all_records[j].chunk_id
          /\ prev.records[i].content # all_records[j].content
          /\ Cardinality(RowsWith(all_records, all_records[j].chunk_id)) = 1

\* the directory and the configuration are as in the previous run (the
\* embedder never changes between runs)
Unchanged ==
    /\ prev.books = books
    /\ prev.config = Config(chunk_size, chunk_overlap)

\* C2 (idempotent re-ingestion): when a run has committed and the program
\* is run again on the unchanged directory, the store stays exactly as the
\* first run left it (same rows, at most one per chunk_id), and a second
\* run that returns has produced the same chunk_ids as the first.
C2_IdempotentRerun ==
    (prev.ok /\ Unchanged) =>
        /\ store = prev.store
        /\ \A id \in ChunkIds(store) : Cardinality(RowsWith(store, id)) = 1
        /\ pc = "returned" => /\ ChunkIds(all_records) = ChunkIds(prev.records)
                              /\ Len(all_records) = Len(prev.records)

\* the second run wrote a batch of several records again and returned
C2_Witness ==
    /\ TwoCommits
    /\ Unchanged
    /\ Len(all_records) >= 2
    /\ Len(store) >= 2

\* the rows of the table after every record of the batch was upserted
RECURSIVE ApplyBatch(_, _)
ApplyBatch(rows, records) ==
    IF records = <<>> THEN rows
    ELSE ApplyBatch(upsert(rows, Head(records)), Tail(records))

\* C3 (all-or-nothing batch): a failure inside _save_to_postgres leaves the
\* committed rows as they were before the call and is raised to the caller;
\* the committed rows change only when the whole batch is committed.
C3_AllOrNothing ==
    [][ /\ (pc = "save" /\ pc' = "failed") =>
              (store' = store /\ error' = "PersistenceFailure")
        /\ (store' # store) =>
              /\ pc = "save" /\ pc' = "returned"
              /\ sent = Len(all_records)
              /\ store' = ApplyBatch(store, all_records) ]_vars

\* the batch failed after some, but not all, of its statements had run
C3_Witness ==
    /\ pc = "failed"
    /\ error = "PersistenceFailure"
    /\ 0 < sent
    /\ sent < Len(all_records)
    /\ txn = store

\* the records a file contributes when nothing goes wrong with it
ExpectedRecords(f) ==
    LET text == extract_text_from_epub(BookOf(f))
        split == split_text(text, chunk_size, chunk_overlap)
    IN  IF text = <<>> THEN <<>>
        ELSE records_of(splitext(f), split.chunks,
                        encode(split.chunks, FaultOf(f)).vectors)

RECURSIVE Accumulated(_)
Accumulated(files) ==
    IF files = <<>> THEN <<>>
    ELSE ExpectedRecords(Head(files)) \o Accumulated(Tail(files))

ExtractionRaises(f) == ~BookOf(f).readable

\* C4 (extraction-failure isolation): a file whose extraction raises adds
\* no record and does not end the run: the loop goes on with the next
\* file, and a run that returns has accumulated and persisted the records
\* of every other file.
C4_ExtractionIsolated ==
    /\ [][ (InLoop /\ ExtractionRaises(epub_file)) =>
              /\ pc' = "loop"
              /\ error' = "none"
              /\ idx' = idx + 1
              /\ all_records' = all_records ]_vars
    /\ []( (pc = "returned" /\ \E k \in DOMAIN epub_files :
                                   ExtractionRaises(epub_files[k])) =>
              /\ all_records = Accumulated(epub_files)
              /\ \A k \in DOMAIN all_records :
                    \E r \in DOMAIN store :
                        store[r] = LastWith(all_records, all_records[k].chunk_id) )

\* a run returned although one file was unreadable, with the records of
\* another file in the store
C4_Witness ==
    /\ pc = "returned"
    /\ \E k \in DOMAIN epub_files : ExtractionRaises(epub_files[k])
    /\ all_records # <<>>
    /\ Len(store) = Len(all_records)

\* C5 (embedding-failure isolation), as claimed: an embedding failure never
\* ends the run.  EncodeRaises violates it: nothing catches the exception.
C5_EmbeddingIsolated == ~(pc = "failed" /\ error = "EmbeddingFailure")

\* the embedder returned a number of vectors different from the number of
\* chunks for this file
LengthMismatch(f) ==
    LET text == extract_text_from_epub(BookOf(f))
        split == split_text(text, chunk_size, chunk_overlap)
        enc == encode(split.chunks, FaultOf(f))
    IN  /\ text # <<>>
        /\ ~split.err
        /\ ~enc.err
        /\ Len(enc.vectors) # Len(split.chunks)

\* C6 (length mismatch is fatal), as claimed: the loop never gets past a
\* file whose vectors and chunks differ in number.  BuildRecords violates
\* it: zip pairs the shorter list and the loop goes on.
C6_MismatchIsFatal ==
    \A k \in DOMAIN epub_files : k < idx => ~LengthMismatch(epub_files[k])

\* C7 (alignment and key derivation): when a file's n chunks come back with
\* n vectors, exactly n records are appended, and the i-th (from 0) has
\* chunk_id T_chunk_i, chunk_num i, book_title T, the i-th chunk as content
\* and the i-th vector as embedding.
C7_Alignment ==
    [][ ( /\ InLoop
          /\ full_text # <<>>
          /\ ~chunks.err
          /\ ~embeddings.err
          /\ Len(embeddings.vectors) = Len(chunks.chunks) ) =>
        LET n == Len(chunks.chunks)
            T == splitext(epub_file)
            base == Len(all_records)
        IN  /\ Len(all_records') = base + n
            /\ SubSeq(all_records', 1, base) = all_records
            /\ \A i \in 0..(n - 1) :
                  LET rec == all_records'[base + i + 1]
                  IN  /\ rec.chunk_id =
                           T \o <<"_", "c", "h", "u", "n", "k", "_">> \o str(i)
                      /\ rec.chunk_num = i
                      /\ rec.book_title = T
                      /\ rec.content = chunks.chunks[i + 1]
                      /\ rec.embedding = Embed(chunks.chunks[i + 1]) ]_vars

\* a file with two chunks has been added to all_records
C7_Witness ==
    /\ pc = "loop"
    /\ \E k \in DOMAIN all_records :
          /\ all_records[k].chunk_num = 1
          /\ all_records[k].content # all_records[k - 1].content

\* C8 (chunk_id uniqueness), as claimed: no two records accumulated in one
\* run share a chunk_id.  The files ".epub.epub" and ".epub" violate it:
\* splitext gives both the title ".epub".
C8_UniqueChunkIds ==
    \A i, j \in DOMAIN all_records :
        i # j => all_records[i].chunk_id # all_records[j].chunk_id

\* C9 (connection release), as claimed: once the run is over its connection
\* is not left open.  Only __del__ closes it, so every run that connected
\* ends with the connection open.
C9_ConnectionReleased == Exited => conn # "open"

InvalidConfiguration ==
    \/ chunk_size <= 0
    \/ chunk_overlap < 0
    \/ chunk_overlap >= chunk_size

\* C10 (invalid configuration rejected up front), as claimed: under an
\* invalid configuration the run never gets past the constructor's check.
\* chunk_overlap = chunk_size is accepted by every release of the splitter.
C10_InvalidConfigRejected ==
    InvalidConfiguration =>
        \/ pc = "init"
        \/ pc = "failed" /\ error = "InvalidConfiguration"


\* the files of the run that contributed nothing because nothing was
\* extracted from them (unreadable, or without text)
SkippedFiles ==
    {k \in DOMAIN epub_files :
        extract_text_from_epub(BookOf(epub_files[k])) = <<>>}

\* C11 (run-level result), as claimed: what process_directory returns
\* reports the count of records and the count of documents skipped or
\* failed.  Line 136 returns len(all_records) alone.
C11_ReportsBothCounts ==
    pc = "returned" =>
        /\ Len(returned_value) = 2
        /\ returned_value[1] = Len(all_records)
        /\ returned_value[2] = Cardinality(SkippedFiles)


\* the file can be read and none of its document items has text other
\* than whitespace
BlankDocument(f) ==
    /\ BookOf(f).readable
    /\ \A k \in DOMAIN BookOf(f).items :
          BookOf(f).items[k].type = ITEM_DOCUMENT =>
              strip(BookOf(f).items[k].text) = <<>>

\* C12 (empty-document skip): a document with no text but whitespace is
\* extracted as the empty text, adds no record and never reaches the
\* splitter or the embedder; the loop goes on with the next file, and a run
\* that returns has accumulated and persisted the records of the others.
C12_EmptyDocumentSkipped ==
    /\ [][ (InLoop /\ BlankDocument(epub_file)) =>
              /\ full_text = <<>>
              /\ pc' = "loop"
              /\ error' = "none"
              /\ idx' = idx + 1
              /\ all_records' = all_records ]_vars
    /\ []( (pc = "returned" /\ \E k \in DOMAIN epub_files :
                                   BlankDocument(epub_files[k])) =>
              /\ all_records = Accumulated(epub_files)
              /\ \A k \in DOMAIN all_records :
                    \E r \in DOMAIN store :
                        store[r] = LastWith(all_records, all_records[k].chunk_id) )

\* a run returned with the records of another file although one file was
\* blank and the embedder would have raised for it
C12_Witness ==
    /\ pc = "returned"
    /\ all_records # <<>>
    /\ Len(store) = Len(all_records)
    /\ \E k \in DOMAIN epub_files :
          /\ BlankDocument(epub_files[k])
          /\ FaultOf(epub_files[k]) = "raise"


\* ------------------------------------------- claims about the splitter
\* (checked under SpecSplitter: one file, one document item)

\* the text given to split_text, and the chunks the loop has appended
SplitInput == extract_text_from_epub(books[1])
SplitOutput == [k \in DOMAIN all_records |-> all_records[k].content]

\* the file has been split and its records appended
SplitDone == pc = "loop" /\ idx = 2 /\ SplitInput # <<>>

Ceil(a, b) == (a + b - 1) \div b

Max(a, b) == IF a >= b THEN a ELSE b

\* C13 (chunk count), as claimed: a text of length L gives exactly
\* ceil(L / (chunk_size - chunk_overlap)) chunks.  The text "aa   " with
\* chunk_size 2 and overlap 0 gives 1 chunk, not 3.
C13_ChunkCountIsCeil ==
    SplitDone =>
        Len(SplitOutput) = Ceil(Len(SplitInput), chunk_size - chunk_overlap)

\* C13, amended: a text that is not blank gives at least one chunk and at
\* most as many chunks as it has characters, and exactly one chunk when it
\* is no longer than chunk_size.
C13_ChunkCount ==
    SplitDone =>
        /\ Len(SplitOutput) >= 1
        /\ Len(SplitOutput) <= Len(SplitInput)
        /\ Len(SplitInput) <= chunk_size => Len(SplitOutput) = 1

\* a text longer than chunk_size - chunk_overlap and no longer than
\* chunk_size gave one chunk
C13_Witness ==
    /\ SplitDone
    /\ chunk_size - chunk_overlap < Len(SplitInput)
    /\ Len(SplitInput) <= chunk_size
    /\ Len(SplitOutput) = 1
    /\ Ceil(Len(SplitInput), chunk_size - chunk_overlap) > 1

\* C14 (chunk coverage), as claimed: the i-th chunk is the window of
\* chunk_size characters that starts (i - 1) * (chunk_size - chunk_overlap)
\* characters into the text, and the last window reaches the end of the
\* text.  The splitter cuts at separators and strips the chunks.
C14_FixedStrideWindows ==
    SplitDone =>
        LET stride == chunk_size - chunk_overlap
            L == Len(SplitInput)
        IN  /\ \A i \in DOMAIN SplitOutput :
                  SplitOutput[i] =
                      SubSeq(SplitInput, (i - 1) * stride + 1,
                             Min(L, (i - 1) * stride + chunk_size))
            /\ (Len(SplitOutput) - 1) * stride + chunk_size >= L

\* the chunks from the k-th on can be laid on the text as windows, each
\* starting no earlier than the one before it (from), so that between the
\* characters already covered and the end of the text only whitespace is
\* left out
RECURSIVE Placed(_, _, _, _, _)
Placed(text, cs, k, from, covered) ==
    IF k > Len(cs)
    THEN \A p \in (covered + 1)..Len(text) : text[p] \in Whitespace
    ELSE \E p \in from..(Len(text) - Len(cs[k]) + 1) :
            /\ SubSeq(text, p, p + Len(cs[k]) - 1) = cs[k]
            /\ \A q \in (covered + 1)..(p - 1) : text[q] \in Whitespace
            /\ Placed(text, cs, k + 1, p, Max(covered, p + Len(cs[k]) - 1))

\* C14, amended: the chunks are windows of the text in non-decreasing
\* start order, each at most chunk_size long, that together cover every
\* character of the text that is not whitespace; the last chunk, stripped,
\* ends where the stripped text ends.
C14_Coverage ==
    SplitDone =>
        /\ Placed(SplitInput, SplitOutput, 1, 1, 0)
        /\ \A i \in DOMAIN SplitOutput : Len(SplitOutput[i]) <= chunk_size
        /\ EndsWith(strip(SplitInput), strip(SplitOutput[Len(SplitOutput)]))

\* a text was split into three or more chunks under a positive overlap,
\* and whitespace of the text is in none of them
C14_Witness ==
    /\ SplitDone
    /\ chunk_overlap > 0
    /\ Len(SplitOutput) >= 3
    /\ \E p \in DOMAIN SplitInput : SplitInput[p] \in Whitespace
    /\ \A i \in DOMAIN SplitOutput :
          \A p \in DOMAIN SplitOutput[i] : SplitOutput[i][p] \notin Whitespace


\* ---------------------------------------- claims about setup and ordering

\* C15 (schema setup): _setup_database on a store that has the table leaves
\* the table and its rows as they are; when it fails nothing of the schema
\* or the rows has changed, the error is raised, and the run ends with no
\* file listed and no record built.
C15_SchemaSetupSafe ==
    [][ /\ pc = "connected" =>
              /\ store' = store
              /\ table_exists => table_exists'
              /\ pc' = "failed" =>
                    /\ error' = "SchemaError"
                    /\ table_exists' = table_exists
                    /\ txn' = store
        /\ (error = "SchemaError" /\ runs' = runs) =>
              /\ pc' = "failed"
              /\ store' = store
              /\ epub_files' = <<>>
              /\ all_records' = <<>> ]_vars

\* _setup_database has run on a table that held rows of an earlier run
C15_Witness ==
    /\ pc = "ready"
    /\ runs = 2
    /\ prev.ok
    /\ table_exists
    /\ store # <<>>
    /\ store = prev.store

\* C16 (accumulate, then commit): until process_directory returns, the
\* committed rows are those of the start of the run, and outside
\* _save_to_postgres nothing is written in the transaction either;
\* _save_to_postgres is entered only after the last file of the listing.
C16_AccumulateThenCommit ==
    /\ pc # "returned" => store = prev.store
    /\ pc # "save" => txn = store
    /\ pc \in {"save", "returned"} => idx = Len(epub_files) + 1

\* the run was aborted by the embedding of a file after the records of an
\* earlier file had been built
C16_Witness ==
    /\ pc = "failed"
    /\ error = "EmbeddingFailure"
    /\ all_records # <<>>
    /\ idx > 1
    /\ store = prev.store

\* C17 (no deletion, frame of the upsert): no step removes a chunk_id from
\* the committed rows, and a row whose chunk_id is not in the batch is left
\* as it is, by every statement of the batch and by its commit; this holds
\* also for a run with another configuration that gives a file fewer chunks.
C17_NoDeletion ==
    [][ /\ ChunkIds(store) \subseteq ChunkIds(store')
        /\ \A k \in DOMAIN store :
              store[k].chunk_id \notin ChunkIds(all_records) =>
                  \E j \in DOMAIN store' : store'[j] = store[k]
        /\ (pc = "save" /\ pc' = "save") =>
              /\ ChunkIds(txn) \subseteq ChunkIds(txn')
              /\ \A k \in DOMAIN txn :
                    txn[k].chunk_id \notin ChunkIds(all_records) =>
                        \E j \in DOMAIN txn' : txn'[j] = txn[k] ]_vars

\* a run under another configuration committed fewer records than the run
\* before it, and a row of that run that is not in the batch is still there
C17_Witness ==
    /\ TwoCommits
    /\ prev.config # Config(chunk_size, chunk_overlap)
    /\ prev.books = books
    /\ Len(all_records) < Len(prev.records)
    /\ \E k \in DOMAIN store :
          /\ store[k].chunk_id \notin ChunkIds(all_records)
          /\ \E j \in DOMAIN prev.store : prev.store[j] = store[k]

\* C18 (returned count implies durable state): when process_directory has
\* returned, the committed rows hold, for every accumulated record, a row
\* with the chunk_id and the content of that record; when _save_to_postgres
\* has failed nothing is returned and the rows are those of the start of
\* the run.  Two files with one title give records with one chunk_id, and
\* the row keeps the content of the later one only.
C18_ReturnedCountIsDurable ==
    /\ pc = "returned" =>
          \A k \in DOMAIN all_records :
              \E j \in DOMAIN store :
                  /\ store[j].chunk_id = all_records[k].chunk_id
                  /\ store[j].content = all_records[k].content
    /\ (pc = "failed" /\ error = "PersistenceFailure") => store = prev.store

====
